---- MODULE Spec2Model ----
(***************************************************************************)
(* Model of backend/server.js: an Express gateway in front of three        *)
(* collaborators (Firebase Auth, Firestore, Gemini).  Every request is an  *)
(* independently scheduled async handler; a handler runs without yielding  *)
(* between two awaits, so each action below is one run-to-next-await       *)
(* segment of a handler together with the collaborator event that ends     *)
(* the await.  A request that touches the store at most once (every route  *)
(* but /generate) is one action, taken at the moment the store serves it:  *)
(* verifyToken and the code around the query read and write nothing but    *)
(* the request.  The requests modelled are those that have passed the      *)
(* global cors() and express.json() middleware (server.js:25-30) with a    *)
(* body that is a JSON object whose fields, when present, are strings.     *)
(***************************************************************************)
EXTENDS Integers, Sequences, FiniteSets, TLC

VARIABLES clock, chats, msgs, h, last, genLog

vars == <<clock, chats, msgs, h, last, genLog>>

----------------------------------------------------------------------------
(* Bounds of the model *)

\* number of conversations the store holds before /generate stops arriving
MaxChats == 2
\* number of milliseconds the wall clock advances in one behaviour
MaxTicks == 1

\* the slots of the /generate requests in flight at the same time
Handlers == {1, 2}

\* the wall clock at process start (milliseconds); two-digit values follow
ClockStart == 9

----------------------------------------------------------------------------
(* Optional values: JavaScript undefined is <<>>, a defined value v is <<v>> *)

None == <<>>
Some(v) == <<v>>

\* JavaScript truthiness of an optional string: undefined and '' are falsy
Truthy(o) == o # None /\ o[1] # ""

----------------------------------------------------------------------------
(* String helpers, computed the way the JavaScript built-ins compute them *)

\* String.prototype.substring(a, b) with 0-based a and exclusive b, clamped
Substring(s, a, b) ==
    LET hi == IF b > Len(s) THEN Len(s) ELSE b
    IN  IF a >= hi THEN "" ELSE SubSeq(s, a + 1, hi)

\* 1-based index of the first occurrence of sep in s, 0 when there is none
IndexOf(s, sep) ==
    LET hits == {i \in 1..(Len(s) - Len(sep) + 1) :
                    SubSeq(s, i, i + Len(sep) - 1) = sep}
    IN  IF hits = {} THEN 0
        ELSE CHOOSE i \in hits : \A j \in hits : i <= j

\* s.split(sep)[1]: undefined when sep does not occur in s, else the text
\* between the first occurrence of sep and the next one (or the end)
SplitSecond(s, sep) ==
    LET i == IndexOf(s, sep)
    IN  IF i = 0 THEN None
        ELSE LET rest == SubSeq(s, i + Len(sep), Len(s))
                 j == IndexOf(rest, sep)
             IN  IF j = 0 THEN Some(rest) ELSE Some(SubSeq(rest, 1, j - 1))

\* new Date().toISOString(): a fixed-width, zero-padded rendering of the
\* wall clock; two digits stand for the 24 fixed-width characters
ToISOString(t) == <<(t \div 10) % 10, t % 10>>

\* Firestore string order: lexicographic by code unit, a prefix sorts first
RECURSIVE StrLess(_, _)
StrLess(a, b) ==
    IF b = <<>> THEN FALSE
    ELSE IF a = <<>> THEN TRUE
    ELSE IF a[1] # b[1] THEN a[1] < b[1]
    ELSE StrLess(Tail(a), Tail(b))

----------------------------------------------------------------------------
(* Request inputs *)

\* Authorization header values: absent, a non-bearer scheme, an empty bearer
\* token, the tokens of two users, and a token the verifier does not know
Headers ==
    { None, Some("Basic tokA"), Some("Bearer "),
      Some("Bearer tokA"), Some("Bearer tokB"), Some("Bearer bad") }

SneakerTopic == "Launch of new sneaker"
LongTopic == "Summer sale starts this Friday at noon"

Topics == { None, Some(""), Some(LongTopic) }
Platforms == { None, Some(""), Some("Instagram") }
Tones == { None, Some(""), Some("Excited") }

EmptyBody == [topic |-> None, platform |-> None, tone |-> None]

\* the body of the specification's example
SneakerBody ==
    [topic |-> Some(SneakerTopic), platform |-> Some("Instagram"),
     tone |-> Some("Excited")]

\* request bodies: every combination of absent, empty and present fields
Bodies == [topic : Topics, platform : Platforms, tone : Tones]

\* texts the generator may return
GenTexts == { "post-1", "post-2" }

\* document ids the store can generate for a chat
ChatIds == 1..MaxChats

\* a request as the gateway reads it
Req(method, path, param, header, body) ==
    [method |-> method, path |-> path, param |-> param, header |-> header,
     body |-> body]

\* the requests of one user, running concurrently: one request for every
\* way a request can end, and the complete /generate of the example
FlowRequests ==
    { Req("GET", "/", 0, None, EmptyBody),
      Req("GET", "/history", 0, None, EmptyBody),
      Req("GET", "/test-auth", 0, Some("Bearer tokA"), EmptyBody),
      Req("GET", "/history", 0, Some("Bearer tokA"), EmptyBody),
      Req("POST", "/generate", 0, Some("Bearer tokA"),
          [SneakerBody EXCEPT !.tone = None]),
      Req("POST", "/generate", 0, Some("Bearer tokA"), SneakerBody) }
    \cup { Req("GET", "/chat", id, Some("Bearer tokA"), EmptyBody) :
              id \in ChatIds }

\* the requests of two users: reads and complete /generate requests
UserRequests ==
    { Req("GET", "/", 0, None, EmptyBody),
      Req("GET", "/history", 0, Some("Bearer "), EmptyBody),
      Req("GET", "/test-auth", 0, Some("Bearer tokB"), EmptyBody),
      Req("POST", "/generate", 0, Some("Bearer tokB"),
          [SneakerBody EXCEPT !.topic = Some("")]) }
    \cup { Req("GET", "/history", 0, hd, EmptyBody) :
              hd \in {Some("Bearer tokA"), Some("Bearer tokB")} }
    \cup { Req("POST", "/generate", 0, hd, SneakerBody) :
              hd \in {Some("Bearer tokA"), Some("Bearer tokB")} }
    \cup { Req("GET", "/chat", id, hd, EmptyBody) :
              id \in ChatIds,
              hd \in {Some("Bearer tokA"), Some("Bearer tokB")} }

\* every method, path and header the gateway tells apart, and for a
\* verified user every body over absent, empty and present fields
GatewayRequests ==
    { Req("GET", path, 0, hd, EmptyBody) :
         path \in {"/", "/test-auth", "/history", "/generate"},
         hd \in Headers }
    \cup { Req("GET", "/chat", 1, hd, EmptyBody) : hd \in Headers }
    \cup { Req("POST", "/generate", 0, hd, EmptyBody) : hd \in Headers }
    \cup { Req("POST", "/history", 0, hd, EmptyBody) :
              hd \in {None, Some("Bearer tokA")} }
    \cup { Req("POST", "/generate", 0, Some("Bearer tokA"), b) : b \in Bodies }

NoReq == [method |-> "", path |-> "", param |-> 0, header |-> None,
          body |-> EmptyBody]

----------------------------------------------------------------------------
(* Collaborators *)

\* auth.verifyIdToken: the uid of a token the identity provider issued
Uid(token) ==
    IF token = "tokA" THEN Some("u1")
    ELSE IF token = "tokB" THEN Some("u2")
    ELSE None

\* orderBy with the direction argument ignored
OrderBeforeAscending(a, b, dir) ==
    \/ StrLess(a.createdAt, b.createdAt)
    \/ a.createdAt = b.createdAt /\ a.id < b.id

\* Firestore's order of two documents under orderBy('createdAt', dir): by
\* the createdAt string, ties broken by document id in the same direction
OrderBefore(a, b, dir) ==
    IF dir = "asc"
    THEN \/ StrLess(a.createdAt, b.createdAt)
         \/ a.createdAt = b.createdAt /\ a.id < b.id
    ELSE \/ StrLess(b.createdAt, a.createdAt)
         \/ a.createdAt = b.createdAt /\ a.id > b.id

RECURSIVE OrderBy(_, _)
OrderBy(docs, dir) ==
    IF docs = {} THEN <<>>
    ELSE LET first == CHOOSE d \in docs :
                          \A e \in docs \ {d} : OrderBefore(d, e, dir)
         IN  <<first>> \o OrderBy(docs \ {first}, dir)

\* a collection-group query over every user's chats
AllChats(userId) == chats

\* db.collection('users').doc(userId).collection('chats')
ChatsOf(userId) == {c \in chats : c.uid = userId}

\* ...collection('chats').doc(chatId).collection('messages')
MessagesOf(userId, chatId) ==
    {m \in msgs : m.uid = userId /\ m.chat = chatId}

----------------------------------------------------------------------------
(* The gateway *)

\* the routes with the token-checking debug handler also mounted on '/'
RouteWithRoot(method, path) ==
    IF method = "GET" /\ path \in {"/", "/test-auth"} THEN "testAuth"
    ELSE IF method = "GET" /\ path = "/history" THEN "history"
    ELSE IF method = "GET" /\ path = "/chat" THEN "chat"
    ELSE IF method = "POST" /\ path = "/generate" THEN "generate"
    ELSE "none"

\* the routes registered with app.get / app.post; "none" falls through to
\* the framework's final handler, which answers 404
Route(method, path) ==
    IF method = "GET" /\ path = "/test-auth" THEN "testAuth"
    ELSE IF method = "GET" /\ path = "/history" THEN "history"
    ELSE IF method = "GET" /\ path = "/chat" THEN "chat"
    ELSE IF method = "POST" /\ path = "/generate" THEN "generate"
    ELSE "none"

\* the Authorization header taken as the token, without the split
TokenWholeHeader(header) == header

\* req.headers.authorization?.split('Bearer ')[1]
Token(header) ==
    IF header = None THEN None ELSE SplitSecond(header[1], "Bearer ")

\* the length of the topic prefix kept in a title
TitleLen == 25

\* the title cut after 20 characters
TitleTwenty(topic) == Substring(topic, 0, 20) \o "..."

\* topic.substring(0, 25) + '...'
Title(topic) == Substring(topic, 0, TitleLen) \o "..."

\* the template literal stored as the text of the user message
UserRequest(topic, platform, tone) ==
    "**Topic:** " \o topic \o "\n**Platform:** " \o platform
        \o "\n**Tone:** " \o tone

\* a validation that tests for undefined only and lets '' through
MissingFieldUndefinedOnly(body) ==
    body.topic = None \/ body.platform = None \/ body.tone = None

\* !topic || !platform || !tone
MissingField(body) ==
    ~Truthy(body.topic) \/ ~Truthy(body.platform) \/ ~Truthy(body.tone)

\* the user document a handler's store paths start from: req.user.uid
PathUser(r) == h[r].user

\* currentChatId kept in a variable shared by all requests: the chat
\* created last
PathChatLatest(r) ==
    IF chats = {} THEN h[r].cid
    ELSE (CHOOSE c \in chats : \A d \in chats : d.seq <= c.seq).id

\* the chat document a handler's message writes go under: currentChatId
PathChat(r) == h[r].cid

\* snapshot.docs.map(doc => ({ id: doc.id, ...doc.data() }))
HistoryBody(userId) ==
    LET docs == OrderBy(ChatsOf(userId), "desc")
    IN  [i \in 1..Len(docs) |->
            [id |-> docs[i].id, title |-> docs[i].title,
             createdAt |-> docs[i].createdAt]]

\* snapshot.docs.map(doc => doc.data())
ChatBody(userId, chatId) ==
    LET docs == OrderBy(MessagesOf(userId, chatId), "asc")
    IN  [i \in 1..Len(docs) |->
            [role |-> docs[i].role, text |-> docs[i].text,
             createdAt |-> docs[i].createdAt]]

ZeroCalls == [verify |-> 0, store |-> 0, gen |-> 0]

\* a handler slot with no request in it
Idle == [pc |-> "idle", req |-> NoReq, serial |-> 0, user |-> "",
         cid |-> 0, ts |-> <<>>, text |-> "", calls |-> ZeroCalls,
         ran |-> FALSE]

\* no response on the wire
NoResponse == [req |-> NoReq, serial |-> 0, user |-> "", cid |-> 0,
               status |-> 0, kind |-> "none", body |-> <<>>,
               calls |-> ZeroCalls, ran |-> FALSE]

Init ==
    /\ clock = ClockStart
    /\ chats = {}
    /\ msgs = {}
    /\ h = [r \in Handlers |-> Idle]
    /\ last = NoResponse
    /\ genLog = {}

\* res.status(status).json(body) by a request in state hr; last is the
\* response on the wire, there for the one state after the step that sent it
Response(hr, status, kind, body) ==
    [req |-> hr.req, serial |-> hr.serial, user |-> hr.user, cid |-> hr.cid,
     status |-> status, kind |-> kind, body |-> body,
     calls |-> hr.calls, ran |-> hr.ran]

\* request q as it enters the middleware chain
Arrived(q) == [Idle EXCEPT !.req = q]

\* request q after verifyToken awaited auth.verifyIdToken(token)
Verifying(q) == [Arrived(q) EXCEPT !.calls.verify = 1]

\* verifyIdToken resolves for request q on route: the token is one the
\* identity provider issued
Verified(q, route) ==
    /\ Route(q.method, q.path) = route
    /\ Truthy(Token(q.header))
    /\ Uid(Token(q.header)[1]) # None

\* request q after req.user = decodedToken and next(): the route handler
\* has been entered
Entered(q) ==
    [Verifying(q) EXCEPT !.user = Uid(Token(q.header)[1])[1], !.ran = TRUE]

\* the previous response has left the wire
WireClear == last = NoResponse

\* the wall clock advances by a millisecond
Tick ==
    /\ WireClear
    /\ clock < ClockStart + MaxTicks
    /\ clock' = clock + 1
    /\ last' = NoResponse
    /\ UNCHANGED <<chats, msgs, h, genLog>>

\* a request for which no route is registered: the framework answers 404
Unrouted(q) ==
    /\ WireClear
    /\ Route(q.method, q.path) = "none"
    /\ last' = Response(Arrived(q), 404, "notFound", <<>>)
    /\ UNCHANGED <<clock, chats, msgs, h, genLog>>

\* verifyToken, no token: 401
NoToken(q) ==
    /\ WireClear
    /\ Route(q.method, q.path) # "none"
    /\ ~Truthy(Token(q.header))
    /\ last' = Response(Arrived(q), 401, "authRequired", <<>>)
    /\ UNCHANGED <<clock, chats, msgs, h, genLog>>

\* verifyToken, verifyIdToken rejects (unknown or expired token, provider
\* failure): 403
VerifyReject(q) ==
    /\ WireClear
    /\ Route(q.method, q.path) # "none"
    /\ Truthy(Token(q.header))
    /\ last' = Response(Verifying(q), 403, "invalidToken", <<>>)
    /\ UNCHANGED <<clock, chats, msgs, h, genLog>>

\* GET /test-auth
TestAuth(q) ==
    /\ WireClear
    /\ Verified(q, "testAuth")
    /\ last' = Response(Entered(q), 200, "testAuth", <<>>)
    /\ UNCHANGED <<clock, chats, msgs, h, genLog>>

\* request q after its handler awaited its one store query
Queried(q) == [Entered(q) EXCEPT !.calls.store = 1]

\* GET /history, the query resolves: 200 with the listing
History(q) ==
    /\ WireClear
    /\ Verified(q, "history")
    /\ last' = Response(Queried(q), 200, "history",
                        HistoryBody(Queried(q).user))
    /\ UNCHANGED <<clock, chats, msgs, h, genLog>>

\* GET /history, the query rejects: 500
HistoryFail(q) ==
    /\ WireClear
    /\ Verified(q, "history")
    /\ last' = Response(Queried(q), 500, "fetchHistoryFailed", <<>>)
    /\ UNCHANGED <<clock, chats, msgs, h, genLog>>

\* GET /chat/:chatId, the query resolves: 200 with the messages
Chat(q) ==
    /\ WireClear
    /\ Verified(q, "chat")
    /\ last' = Response(Queried(q), 200, "chat",
                        ChatBody(Queried(q).user, q.param))
    /\ UNCHANGED <<clock, chats, msgs, h, genLog>>

\* GET /chat/:chatId, the query rejects: 500
ChatFail(q) ==
    /\ WireClear
    /\ Verified(q, "chat")
    /\ last' = Response(Queried(q), 500, "fetchMessagesFailed", <<>>)
    /\ UNCHANGED <<clock, chats, msgs, h, genLog>>

\* POST /generate, validation fails: 400
GenerateInvalid(q) ==
    /\ WireClear
    /\ Verified(q, "generate")
    /\ MissingField(q.body)
    /\ last' = Response(Entered(q), 400, "fieldsRequired", <<>>)
    /\ UNCHANGED <<clock, chats, msgs, h, genLog>>

\* the numbers that tell the /generate requests of a behaviour apart
Serials == 1..(MaxChats + Cardinality(Handlers))

\* a number no /generate request in flight or recorded in the store bears
FreshSerial ==
    CHOOSE n \in Serials :
        /\ n \notin {h[x].serial : x \in Handlers}
        /\ n \notin {c.req : c \in chats}
        /\ \A m \in Serials :
              (m \notin {h[x].serial : x \in Handlers}
                 /\ m \notin {c.req : c \in chats}) => n <= m

\* POST /generate, validation passes: the chat document is built with the
\* current time and the add is awaited
GenerateStart(r, q) ==
    /\ WireClear
    /\ h[r].pc = "idle"
    /\ \A x \in Handlers : h[x].pc = "idle" => r <= x
    /\ Cardinality(chats)
         + Cardinality({x \in Handlers : h[x].pc = "addChat"}) < MaxChats
    /\ Verified(q, "generate")
    /\ ~MissingField(q.body)
    /\ h' = [h EXCEPT ![r] =
               [Entered(q) EXCEPT !.pc = "addChat", !.serial = FreshSerial,
                                  !.calls.store = 1,
                                  !.ts = ToISOString(clock)]]
    /\ last' = NoResponse
    /\ UNCHANGED <<clock, chats, msgs, genLog>>

\* the chat document the pending add of handler r creates under id
ChatDoc(r, id) ==
    [uid |-> PathUser(r), id |-> id,
     title |-> Title(h[r].req.body.topic[1]), createdAt |-> h[r].ts,
     req |-> h[r].serial, by |-> h[r].user,
     seq |-> Cardinality(chats) + 1]

\* the message document the pending add of handler r creates; a message id
\* is the rank of the document's auto-generated id among the ids of its
\* collection, which is all a query shows of it
MsgDoc(r, rank, role, text) ==
    [uid |-> PathUser(r), chat |-> PathChat(r), id |-> rank, role |-> role,
     text |-> text, createdAt |-> h[r].ts,
     req |-> h[r].serial, by |-> h[r].user]

\* the ranks the auto-generated id of a new message of handler r's chat
\* can take
NewRanks(r) == 1..(Cardinality(MessagesOf(PathUser(r), PathChat(r))) + 1)

\* the message written with set() on a fixed document of the chat
WithMessageOverwrite(r, rank, role, text) ==
    (msgs \ MessagesOf(PathUser(r), PathChat(r)))
        \cup {MsgDoc(r, 1, role, text)}

\* ...collection('messages').add(doc): the store with the message added to
\* handler r's chat at rank
WithMessage(r, rank, role, text) ==
    LET own == MessagesOf(PathUser(r), PathChat(r))
        moved == {[m EXCEPT !.id = IF m.id >= rank THEN m.id + 1 ELSE m.id] :
                     m \in own}
    IN  (msgs \ own) \cup moved \cup {MsgDoc(r, rank, role, text)}

\* chat ids that need not be new
AnyChatIds == ChatIds

\* the auto-generated ids still free for a new chat document
FreeChatIds == ChatIds \ {c.id : c \in chats}

\* text of the user message of handler r
UserRequestOf(r) ==
    UserRequest(h[r].req.body.topic[1], h[r].req.body.platform[1],
                h[r].req.body.tone[1])

\* the chat add resolves: the user message is built with the current time
\* and its add is awaited
AddChatOk(r) ==
    /\ WireClear
    /\ h[r].pc = "addChat"
    /\ \E id \in FreeChatIds :
          /\ chats' = chats \cup {ChatDoc(r, id)}
          /\ h' = [h EXCEPT ![r].pc = "addUser", ![r].cid = id,
                            ![r].calls.store = 2,
                            ![r].ts = ToISOString(clock)]
    /\ last' = NoResponse
    /\ UNCHANGED <<clock, msgs, genLog>>

\* the catch block of /generate: 500, nothing is undone
GenerateFailed(r) ==
    /\ last' = Response(h[r], 500, "generateFailed", <<>>)
    /\ h' = [h EXCEPT ![r] = Idle]

\* the chat add rejects, with the write applied or not: 500
AddChatFail(r) ==
    /\ WireClear
    /\ h[r].pc = "addChat"
    /\ \E applied \in BOOLEAN :
          IF applied
          THEN \E id \in FreeChatIds : chats' = chats \cup {ChatDoc(r, id)}
          ELSE chats' = chats
    /\ GenerateFailed(r)
    /\ UNCHANGED <<clock, msgs, genLog>>

\* the user-message add resolves: model.generateContent is awaited
AddUserOk(r) ==
    /\ WireClear
    /\ h[r].pc = "addUser"
    /\ \E rank \in NewRanks(r) :
          msgs' = WithMessage(r, rank, "user", UserRequestOf(r))
    /\ h' = [h EXCEPT ![r].pc = "generating", ![r].calls.gen = 1]
    /\ last' = NoResponse
    /\ UNCHANGED <<clock, chats, genLog>>

\* the user-message add rejects, with the write applied or not: 500
AddUserFail(r) ==
    /\ WireClear
    /\ h[r].pc = "addUser"
    /\ \E applied \in BOOLEAN :
          IF applied
          THEN \E rank \in NewRanks(r) :
                  msgs' = WithMessage(r, rank, "user", UserRequestOf(r))
          ELSE msgs' = msgs
    /\ GenerateFailed(r)
    /\ UNCHANGED <<clock, chats, genLog>>

\* the generator returns a text: the model message is built with the
\* current time and its add is awaited
GenResolve(r) ==
    /\ WireClear
    /\ h[r].pc = "generating"
    /\ \E t \in GenTexts :
          h' = [h EXCEPT ![r].pc = "addModel", ![r].text = t,
                         ![r].calls.store = 3,
                         ![r].ts = ToISOString(clock)]
    /\ last' = NoResponse
    /\ UNCHANGED <<clock, chats, msgs, genLog>>

\* generateContent rejects or result.response.text() throws: 500
GenFail(r) ==
    /\ WireClear
    /\ h[r].pc = "generating"
    /\ GenerateFailed(r)
    /\ UNCHANGED <<clock, chats, msgs, genLog>>

\* the model-message add resolves: 200 with chatId, userRequest, response
AddModelOk(r) ==
    /\ WireClear
    /\ h[r].pc = "addModel"
    /\ \E rank \in NewRanks(r) :
          msgs' = WithMessage(r, rank, "model", h[r].text)
    /\ LET out == [chatId |-> h[r].cid, userRequest |-> UserRequestOf(r),
                   response |-> h[r].text]
       IN  /\ last' = Response(h[r], 200, "generate", out)
           /\ genLog' = genLog \cup
                  {[uid |-> h[r].user, serial |-> h[r].serial, out |-> out]}
    /\ h' = [h EXCEPT ![r] = Idle]
    /\ UNCHANGED <<clock, chats>>

\* the model-message add rejects, with the write applied or not: 500
AddModelFail(r) ==
    /\ WireClear
    /\ h[r].pc = "addModel"
    /\ \E applied \in BOOLEAN :
          IF applied
          THEN \E rank \in NewRanks(r) :
                  msgs' = WithMessage(r, rank, "model", h[r].text)
          ELSE msgs' = msgs
    /\ GenerateFailed(r)
    /\ UNCHANGED <<clock, chats, genLog>>

\* the client takes the response off the wire
Deliver ==
    /\ last # NoResponse
    /\ last' = NoResponse
    /\ UNCHANGED <<clock, chats, msgs, h, genLog>>

\* a step of the gateway or of its environment, for requests drawn from
\* reqs and /generate handlers running in the slots hs
Step(reqs, hs) ==
    \/ Deliver
    \/ Tick
    \/ \E q \in reqs :
          \/ Unrouted(q)
          \/ NoToken(q)
          \/ VerifyReject(q)
          \/ TestAuth(q)
          \/ History(q)
          \/ HistoryFail(q)
          \/ Chat(q)
          \/ ChatFail(q)
          \/ GenerateInvalid(q)
          \/ \E r \in hs : GenerateStart(r, q)
    \/ \E r \in hs :
          \/ AddChatOk(r)
          \/ AddChatFail(r)
          \/ AddUserOk(r)
          \/ AddUserFail(r)
          \/ GenResolve(r)
          \/ GenFail(r)
          \/ AddModelOk(r)
          \/ AddModelFail(r)

\* one user's requests, two /generate handlers in flight
Next == Step(FlowRequests, Handlers)

Spec == Init /\ [][Next]_vars

\* two users' requests, one after the other
NextUsers == Step(UserRequests, {1})

SpecUsers == Init /\ [][NextUsers]_vars

\* every kind of request, one after the other
NextGateway == Step(GatewayRequests, {1})

SpecGateway == Init /\ [][NextGateway]_vars

----------------------------------------------------------------------------
(* Vocabulary of the properties *)

\* a field of a request body is absent or the empty string
FieldMissing(body) ==
    \E f \in {"topic", "platform", "tone"} : body[f] \in {None, Some("")}

IsGenerate(req) == req.method = "POST" /\ req.path = "/generate"

\* the protected routes of the interface table
IsProtected(req) ==
    \/ req.method = "GET" /\ req.path \in {"/history", "/chat"}
    \/ IsGenerate(req)

\* the Authorization header carries no bearer token: it is absent, is not
\* of the form 'Bearer <token>', or its token is empty
NoBearerToken(header) ==
    \/ header = None
    \/ Len(header[1]) <= 7
    \/ SubSeq(header[1], 1, 7) # "Bearer "

\* the messages of a chat response, as <<role, text>> pairs
RolesAndTexts(body) == [i \in 1..Len(body) |-> <<body[i].role, body[i].text>>]

\* position of the conversation with this id in a history response
Position(body, id) == CHOOSE i \in 1..Len(body) : body[i].id = id

\* a stored message without the rank of its id
Content(m) ==
    [uid |-> m.uid, chat |-> m.chat, role |-> m.role, text |-> m.text,
     createdAt |-> m.createdAt, req |-> m.req, by |-> m.by]

\* the messages of one role in one conversation
RoleMessages(c, role) ==
    {m \in msgs : m.uid = c.uid /\ m.chat = c.id /\ m.role = role}

----------------------------------------------------------------------------
(* Properties *)

TypeOK ==
    /\ clock \in ClockStart..(ClockStart + MaxTicks)
    /\ \A r \in Handlers : h[r].calls.store \in 0..3

\* C1: an authenticated POST /generate with topic, platform or tone absent
\* or empty is answered 400 having made no store call and no generator
\* call, and no such request is ever in flight towards the store.
C1_MissingFieldRejected ==
    /\ \A r \in Handlers :
          h[r].pc # "idle" => ~FieldMissing(h[r].req.body)
    /\ (IsGenerate(last.req) /\ last.ran /\ FieldMissing(last.req.body))
          => /\ last.status = 400
             /\ last.calls.store = 0
             /\ last.calls.gen = 0
             /\ last.cid = 0

C1_Witness ==
    /\ last.status = 400
    /\ last.ran
    /\ last.req.body.platform = Some("")
    /\ last.req.body.topic = Some(LongTopic)
    /\ chats # {}

\* C2: after a /generate answered 200 with chatId c, a GET /chat/c of the
\* same user returns exactly the user message with the response's
\* userRequest and then the model message with the generator's text.
C2_RoundTrip ==
    (last.kind = "chat" /\ last.status = 200)
       => \A g \in genLog :
             (g.uid = last.user /\ g.out.chatId = last.req.param)
                => RolesAndTexts(last.body)
                     = << <<"user", g.out.userRequest>>,
                          <<"model", g.out.response>> >>

\* C3 as stated: in a /history response a conversation the store created
\* earlier comes after every conversation of the user created later.
C3_HistoryCreationOrder ==
    (last.kind = "history" /\ last.status = 200)
       => \A a, b \in ChatsOf(last.user) :
             a.seq < b.seq
                => Position(last.body, a.id) > Position(last.body, b.id)

\* C3 amended: a /history response lists exactly the caller's
\* conversations, and a conversation whose createdAt string is strictly
\* smaller than another's comes after it.
C3_HistoryTimestampOrder ==
    (last.kind = "history" /\ last.status = 200)
       => /\ {last.body[i].id : i \in 1..Len(last.body)}
                = {c.id : c \in ChatsOf(last.user)}
          /\ Len(last.body) = Cardinality(ChatsOf(last.user))
          /\ \A a, b \in ChatsOf(last.user) :
                StrLess(a.createdAt, b.createdAt)
                   => Position(last.body, a.id) > Position(last.body, b.id)

C3_Witness ==
    /\ last.kind = "history"
    /\ last.status = 200
    /\ \E a, b \in ChatsOf(last.user) :
          /\ a.seq < b.seq
          /\ StrLess(b.createdAt, a.createdAt)
          /\ Position(last.body, a.id) < Position(last.body, b.id)

\* C4: no step deletes a conversation or a message, and a /generate that
\* fails after its conversation was created is answered 500 with the
\* conversation, and the user message if its write had resolved, in the
\* store.
C4_NoRollback ==
    [][ /\ chats \subseteq chats'
        /\ \A m \in msgs : \E n \in msgs' : Content(n) = Content(m)
        /\ (last'.kind = "generateFailed" /\ last'.cid # 0)
              => /\ last'.status = 500
                 /\ \E c \in chats' :
                       /\ c.id = last'.cid
                       /\ c.req = last'.serial
                       /\ last'.calls.gen = 1
                             => \E m \in RoleMessages(c, "user")' :
                                   m.req = last'.serial ]_vars

C4_Witness ==
    /\ last.kind = "generateFailed"
    /\ last.status = 500
    /\ last.calls.store = 3
    /\ \E c \in chats :
          /\ c.id = last.cid
          /\ RoleMessages(c, "user") # {}
          /\ RoleMessages(c, "model") = {}

C6_DistinctConversations ==
    /\ \A g1, g2 \in genLog :
          g1.serial # g2.serial => g1.out.chatId # g2.out.chatId
    /\ \A c1, c2 \in chats : c1.id = c2.id => c1 = c2
    /\ \A g \in genLog :
          \E c \in chats : c.id = g.out.chatId /\ c.req = g.serial
    /\ \A m \in msgs :
          \E c \in chats : c.id = m.chat /\ c.uid = m.uid /\ c.req = m.req

C6_Witness ==
    \E g1, g2 \in genLog :
       /\ g1.serial # g2.serial
       /\ g1.uid = g2.uid
       /\ g1.out.userRequest = g2.out.userRequest
       /\ g1.out.response = g2.out.response
       /\ \E c1, c2 \in chats :
             /\ c1.id = g1.out.chatId
             /\ c2.id = g2.out.chatId
             /\ c1.seq < c2.seq
             /\ \E m1 \in RoleMessages(c1, "model"),
                   m2 \in RoleMessages(c2, "user") :
                   StrLess(m2.createdAt, m1.createdAt)

\* C7 as stated: a successful /generate with the example body stores the
\* title "Launch of new sneake...".
C7_SneakerTitleTruncated ==
    (last.kind = "generate" /\ last.status = 200
       /\ last.req.body = SneakerBody)
       => \A c \in chats :
             c.id = last.body.chatId => c.title = "Launch of new sneake..."

\* C7 amended: a successful /generate with the example body stores the
\* title "Launch of new sneaker...", the whole 21-character topic and the
\* ellipsis.
C7_SneakerTitle ==
    (last.kind = "generate" /\ last.status = 200
       /\ last.req.body = SneakerBody)
       => /\ \E c \in chats : c.id = last.body.chatId
          /\ \A c \in chats :
                c.id = last.body.chatId
                   => c.title = "Launch of new sneaker..."

C7_Witness ==
    /\ last.kind = "generate"
    /\ last.status = 200
    /\ last.req.body = SneakerBody
    /\ \E c \in chats : c.id = last.body.chatId /\ c.uid = "u1"

C9_UserIsolation ==
    /\ (last.kind = "history" /\ last.status = 200)
          => /\ \A i \in 1..Len(last.body) :
                   \E c \in chats :
                      c.id = last.body[i].id /\ c.by = last.user
             /\ Len(last.body)
                  = Cardinality({c \in chats : c.by = last.user})
    /\ (last.kind = "chat" /\ last.status = 200)
          => /\ \A i \in 1..Len(last.body) :
                   \E m \in msgs :
                      /\ m.by = last.user
                      /\ m.chat = last.req.param
                      /\ m.role = last.body[i].role
                      /\ m.text = last.body[i].text
                      /\ m.createdAt = last.body[i].createdAt
             /\ Len(last.body)
                  = Cardinality({m \in msgs : m.by = last.user
                                               /\ m.chat = last.req.param})
             /\ (\E c \in chats : c.id = last.req.param /\ c.by # last.user)
                   => last.body = <<>>

C9_Witness ==
    /\ last.kind = "chat"
    /\ last.status = 200
    /\ last.body = <<>>
    /\ \E c \in chats :
          /\ c.id = last.req.param
          /\ c.by # last.user
          /\ RoleMessages(c, "model") # {}
    /\ \E c \in chats : c.by = last.user /\ RoleMessages(c, "model") # {}

\* C10: every conversation holds at most one user message and at most one
\* model message, a model message only together with the user message,
\* and every message lies in a conversation that exists under its user.
C10_ConversationShape ==
    /\ \A m \in msgs : \E c \in chats : c.uid = m.uid /\ c.id = m.chat
    /\ \A m \in msgs : m.role \in {"user", "model"}
    /\ \A c \in chats :
          /\ Cardinality(RoleMessages(c, "user")) <= 1
          /\ Cardinality(RoleMessages(c, "model")) <= 1
          /\ RoleMessages(c, "model") # {} => RoleMessages(c, "user") # {}

C10_Witness ==
    /\ \E c \in chats :
          /\ RoleMessages(c, "user") # {}
          /\ RoleMessages(c, "model") # {}
    /\ \E c \in chats :
          /\ RoleMessages(c, "user") # {}
          /\ RoleMessages(c, "model") = {}
          /\ \A r \in Handlers : h[r].cid # c.id

====
